---- MODULE Spec2Model ----
(***************************************************************************)
(* A model of sse-codec (src/src/lib.rs): the Server-Sent Events decoder   *)
(* (line splitting, byte-order-mark handling, field parsing, dispatch)     *)
(* and the encoder.  Text is modelled as sequences of bytes (0..255), so   *)
(* that chunk boundaries, the three-byte byte-order mark and invalid       *)
(* UTF-8 are all representable.                                            *)
(***************************************************************************)
EXTENDS Integers, Sequences, FiniteSets, TLC

VARIABLES
    stream,   \* every byte the transport will deliver or has delivered
    rest,     \* the bytes of stream the transport has not delivered yet
    src,      \* the BytesMut handed to decode: delivered, not yet consumed
    codec,    \* the SSECodec: processed_bom, last_was_cr, id, event, data
    ret,      \* the result of the latest decode call
    out,      \* every Ok(Some(event)) and Err decode has returned, in order
    lines,    \* history: one entry per iteration of decode's loop
    sent      \* the events handed to Encoder::encode, in order

vars == <<stream, rest, src, codec, ret, out, lines, sent>>

----------------------------------------------------------------------------
(* Bytes and byte strings                                                  *)

NUL == 0
LF == 10
CR == 13
SP == 32
COLON == 58
Digit0 == 48
Digit9 == 57

S_data == <<100, 97, 116, 97>>
S_id == <<105, 100>>
S_event == <<101, 118, 101, 110, 116>>
S_retry == <<114, 101, 116, 114, 121>>
S_message == <<109, 101, 115, 115, 97, 103, 101>>
S_bom == <<239, 187, 191>>

\* Option<T>: None is the empty sequence, Some(x) the one-element sequence.
None == <<>>
Some(x) == <<x>>

Drop(s, n) == SubSeq(s, n + 1, Len(s))
Take(s, n) == SubSeq(s, 1, n)
StartsWith(s, p) == Len(s) >= Len(p) /\ Take(s, Len(p)) = p
Contains(s, b) == \E i \in 1..Len(s) : s[i] = b

\* u64::MAX = 18446744073709551615, as decimal digits
U64MaxDigits == <<1,8,4,4,6,7,4,4,0,7,3,7,0,9,5,5,1,6,1,5>>

----------------------------------------------------------------------------
(* Event and Error values                                                  *)

Message(event, data) == [type |-> "Message", event |-> event, data |-> data]
LastEventId(id) == [type |-> "LastEventId", id |-> id]
Retry(retry) == [type |-> "Retry", retry |-> retry]

OkSome(ev) == [kind |-> "Some", ev |-> Some(ev)]
OkNone == [kind |-> "None", ev |-> None]
ErrUtf8 == [kind |-> "Utf8Error", ev |-> None]

SSECodecDefault ==
    [processed_bom |-> FALSE, last_was_cr |-> FALSE,
     id |-> None, event |-> None, data |-> <<>>]

----------------------------------------------------------------------------
(* std::str::from_utf8: is the byte string well-formed UTF-8?              *)

IsCont(b) == b >= 128 /\ b <= 191

RECURSIVE ValidUtf8(_)
ValidUtf8(s) ==
    IF s = <<>> THEN TRUE
    ELSE LET b == s[1]
             n == Len(s)
         IN  IF b < 128 THEN ValidUtf8(Drop(s, 1))
             ELSE IF b >= 194 /\ b <= 223
                  THEN n >= 2 /\ IsCont(s[2]) /\ ValidUtf8(Drop(s, 2))
             ELSE IF b >= 224 /\ b <= 239
                  THEN /\ n >= 3
                       /\ IsCont(s[2]) /\ IsCont(s[3])
                       /\ (b = 224 => s[2] >= 160)
                       /\ (b = 237 => s[2] <= 159)
                       /\ ValidUtf8(Drop(s, 3))
             ELSE IF b >= 240 /\ b <= 244
                  THEN /\ n >= 4
                       /\ IsCont(s[2]) /\ IsCont(s[3]) /\ IsCont(s[4])
                       /\ (b = 240 => s[2] >= 144)
                       /\ (b = 244 => s[2] <= 143)
                       /\ ValidUtf8(Drop(s, 4))
             ELSE FALSE

\* a validity check that also rejects U+0000
ValidUtf8_no_nul(s) == ValidUtf8(s) /\ \A i \in 1..Len(s) : s[i] # 0

\* the check decode applies to a line: std::str::from_utf8(&line[..pos])
from_utf8(s) == ValidUtf8(s)

----------------------------------------------------------------------------
(* u64 values are kept as their decimal digits without leading zeros (the  *)
(* model checker's integers are narrower than 64 bits).                    *)

IsAsciiDigit(b) == b >= Digit0 /\ b <= Digit9
AllAsciiDigits(s) == \A i \in 1..Len(s) : IsAsciiDigit(s[i])

RECURSIVE StripZeros(_)
StripZeros(d) ==
    IF Len(d) > 1 /\ d[1] = 0 THEN StripZeros(Drop(d, 1)) ELSE d

\* lexicographic a <= b for digit strings of equal length
RECURSIVE DigitsLeq(_, _)
DigitsLeq(a, b) ==
    IF a = <<>> THEN TRUE
    ELSE IF a[1] # b[1] THEN a[1] < b[1]
    ELSE DigitsLeq(Drop(a, 1), Drop(b, 1))

FitsU64(d) ==
    \/ Len(d) < Len(U64MaxDigits)
    \/ Len(d) = Len(U64MaxDigits) /\ DigitsLeq(d, U64MaxDigits)

\* a parse that never reports overflow
ParseU64_unchecked(value) ==
    IF value = <<>> \/ ~AllAsciiDigits(value) THEN None
    ELSE Some(StripZeros([i \in 1..Len(value) |-> value[i] - Digit0]))

\* value.parse::<u64>() on a string of ASCII digits: Some(number) or None
ParseU64(value) ==
    IF value = <<>> \/ ~AllAsciiDigits(value) THEN None
    ELSE LET d == StripZeros([i \in 1..Len(value) |-> value[i] - Digit0])
         IN  IF FitsU64(d) THEN Some(d) ELSE None

\* Display for u64
FmtU64(d) == [i \in 1..Len(d) |-> d[i] + Digit0]

----------------------------------------------------------------------------
(* Field parsing and dispatch                                              *)

strip_leading_space(input) ==
    IF StartsWith(input, <<SP>>) THEN Drop(input, 1) ELSE input

\* line.splitn(2, ':'): the index of the first colon, 0 when there is none
RECURSIVE ColonAt(_, _)
ColonAt(line, i) ==
    IF i > Len(line) THEN 0
    ELSE IF line[i] = COLON THEN i
    ELSE ColonAt(line, i + 1)

\* a field name with one leading space trimmed off
FieldName_trimmed(line) ==
    LET k == ColonAt(line, 1)
        name == IF k = 0 THEN line ELSE Take(line, k - 1)
    IN  IF name # <<>> /\ name[1] = SP THEN Drop(name, 1) ELSE name

\* parts.next(): the text before the first colon (the whole line without one)
FieldName(line) ==
    LET k == ColonAt(line, 1) IN IF k = 0 THEN line ELSE Take(line, k - 1)

\* parts.next() again: Some(text after the first colon), None without a colon
FieldValue(line) ==
    LET k == ColonAt(line, 1) IN IF k = 0 THEN None ELSE Some(Drop(line, k))

\* a dispatch that reports the id and leaves it in the buffer
take_message_id_kept(c) ==
    IF c.id # None
    THEN [codec |-> c, ev |-> Some(LastEventId(c.id[1]))]
    ELSE IF c.data = <<>>
    THEN [codec |-> [c EXCEPT !.event = None], ev |-> None]
    ELSE LET d == IF c.data[Len(c.data)] = LF
                  THEN Take(c.data, Len(c.data) - 1) ELSE c.data
             e == IF c.event # None THEN c.event[1] ELSE S_message
         IN  [codec |-> [c EXCEPT !.event = None, !.data = <<>>],
              ev |-> Some(Message(e, d))]

\* a dispatch that copies the data out and leaves the popped buffer behind
take_message_pop_only(c) ==
    IF c.id # None
    THEN [codec |-> [c EXCEPT !.id = None], ev |-> Some(LastEventId(c.id[1]))]
    ELSE IF c.data = <<>>
    THEN [codec |-> [c EXCEPT !.event = None], ev |-> None]
    ELSE LET d == IF c.data[Len(c.data)] = LF
                  THEN Take(c.data, Len(c.data) - 1) ELSE c.data
             e == IF c.event # None THEN c.event[1] ELSE S_message
         IN  [codec |-> [c EXCEPT !.event = None, !.data = d],
              ev |-> Some(Message(e, d))]

\* a dispatch that keeps the event type when the data buffer is empty
take_message_stale_event(c) ==
    IF c.id # None
    THEN [codec |-> [c EXCEPT !.id = None], ev |-> Some(LastEventId(c.id[1]))]
    ELSE IF c.data = <<>>
    THEN [codec |-> c, ev |-> None]
    ELSE LET d == IF c.data[Len(c.data)] = LF
                  THEN Take(c.data, Len(c.data) - 1) ELSE c.data
             e == IF c.event # None THEN c.event[1] ELSE S_message
         IN  [codec |-> [c EXCEPT !.event = None, !.data = <<>>],
              ev |-> Some(Message(e, d))]

\* a dispatch whose Message leaves the event type behind
take_message_event_kept(c) ==
    IF c.id # None
    THEN [codec |-> [c EXCEPT !.id = None], ev |-> Some(LastEventId(c.id[1]))]
    ELSE IF c.data = <<>>
    THEN [codec |-> [c EXCEPT !.event = None], ev |-> None]
    ELSE LET d == IF c.data[Len(c.data)] = LF
                  THEN Take(c.data, Len(c.data) - 1) ELSE c.data
             e == IF c.event # None THEN c.event[1] ELSE S_message
         IN  [codec |-> [c EXCEPT !.data = <<>>],
              ev |-> Some(Message(e, d))]

\* a dispatch that resets the buffers even when it only reports the id
take_message_reset(c) ==
    IF c.id # None
    THEN [codec |-> [c EXCEPT !.id = None, !.event = None, !.data = <<>>],
          ev |-> Some(LastEventId(c.id[1]))]
    ELSE IF c.data = <<>>
    THEN [codec |-> [c EXCEPT !.event = None], ev |-> None]
    ELSE LET d == IF c.data[Len(c.data)] = LF
                  THEN Take(c.data, Len(c.data) - 1) ELSE c.data
             e == IF c.event # None THEN c.event[1] ELSE S_message
         IN  [codec |-> [c EXCEPT !.event = None, !.data = <<>>],
              ev |-> Some(Message(e, d))]

\* a dispatch that forgets to remove the trailing line feed
take_message_keep_lf(c) ==
    IF c.id # None
    THEN [codec |-> [c EXCEPT !.id = None], ev |-> Some(LastEventId(c.id[1]))]
    ELSE IF c.data = <<>>
    THEN [codec |-> [c EXCEPT !.event = None], ev |-> None]
    ELSE LET e == IF c.event # None THEN c.event[1] ELSE S_message
         IN  [codec |-> [c EXCEPT !.event = None, !.data = <<>>],
              ev |-> Some(Message(e, c.data))]

take_message(c) ==
    IF c.id # None
    THEN [codec |-> [c EXCEPT !.id = None], ev |-> Some(LastEventId(c.id[1]))]
    ELSE IF c.data = <<>>
    THEN [codec |-> [c EXCEPT !.event = None], ev |-> None]
    ELSE LET d == IF c.data[Len(c.data)] = LF
                  THEN Take(c.data, Len(c.data) - 1) ELSE c.data
             e == IF c.event # None THEN c.event[1] ELSE S_message
         IN  [codec |-> [c EXCEPT !.event = None, !.data = <<>>],
              ev |-> Some(Message(e, d))]

\* a parser that takes every id line, with U+0000 or without a colon
parse_line_any_id(c, line) ==
    LET name == FieldName(line)
        value == FieldValue(line)
        nothing == [codec |-> c, ev |-> None]
    IN  IF name = S_retry /\ value # None /\ AllAsciiDigits(value[1])
        THEN LET time == ParseU64(value[1])
             IN  IF time # None
                 THEN [codec |-> c, ev |-> Some(Retry(time[1]))]
                 ELSE nothing
        ELSE IF name = S_event /\ value # None
        THEN [codec |-> [c EXCEPT !.event = Some(strip_leading_space(value[1]))],
              ev |-> None]
        ELSE IF name = S_data
        THEN LET v == IF value # None THEN strip_leading_space(value[1]) ELSE <<>>
             IN  [codec |-> [c EXCEPT !.data = c.data \o v \o <<LF>>],
                  ev |-> None]
        ELSE IF name = S_id
        THEN LET v == IF value # None THEN strip_leading_space(value[1]) ELSE <<>>
             IN  take_message([c EXCEPT !.id = Some(v)])
        ELSE IF name = <<>> /\ value # None
        THEN nothing
        ELSE IF name = <<>> /\ value = None
        THEN take_message(c)
        ELSE nothing

\* SSECodec::parse_line
parse_line(c, line) ==
    LET name == FieldName(line)
        value == FieldValue(line)
        nothing == [codec |-> c, ev |-> None]
    IN  IF name = S_retry /\ value # None /\ AllAsciiDigits(value[1])
        THEN LET time == ParseU64(value[1])
             IN  IF time # None
                 THEN [codec |-> c, ev |-> Some(Retry(time[1]))]
                 ELSE nothing
        ELSE IF name = S_event /\ value # None
        THEN [codec |-> [c EXCEPT !.event = Some(strip_leading_space(value[1]))],
              ev |-> None]
        ELSE IF name = S_data
        THEN LET v == IF value # None THEN strip_leading_space(value[1]) ELSE <<>>
             IN  [codec |-> [c EXCEPT !.data = c.data \o v \o <<LF>>],
                  ev |-> None]
        ELSE IF name = S_id /\ value # None /\ ~Contains(value[1], NUL)
        THEN take_message([c EXCEPT !.id = Some(strip_leading_space(value[1]))])
        ELSE IF name = <<>> /\ value # None
        THEN nothing
        ELSE IF name = <<>> /\ value = None
        THEN take_message(c)
        ELSE nothing

----------------------------------------------------------------------------
(* Decoder::decode                                                         *)

\* a search for LF alone: a CR would not end a line
RECURSIVE memchr_lf(_, _)
memchr_lf(buf, i) ==
    IF i > Len(buf) THEN -1
    ELSE IF buf[i] = LF THEN i - 1
    ELSE memchr_lf(buf, i + 1)

\* memchr2(b'\r', b'\n', src): 0-based index of the first CR or LF, or -1
RECURSIVE memchr2(_, _)
memchr2(buf, i) ==
    IF i > Len(buf) THEN -1
    ELSE IF buf[i] = CR \/ buf[i] = LF THEN i - 1
    ELSE memchr2(buf, i + 1)

\* the mark removed without remembering that it was
strip_bom_unflagged(c, line) ==
    IF StartsWith(line, S_bom) /\ ~c.processed_bom
    THEN [codec |-> c, line |-> Drop(line, Len(S_bom)), bom |-> TRUE]
    ELSE [codec |-> c, line |-> line, bom |-> FALSE]

\* "get rid of the BOM at the start"
strip_bom(c, line) ==
    IF StartsWith(line, S_bom) /\ ~c.processed_bom
    THEN [codec |-> [c EXCEPT !.processed_bom = TRUE],
          line |-> Drop(line, Len(S_bom)), bom |-> TRUE]
    ELSE [codec |-> c, line |-> line, bom |-> FALSE]

\* every empty LF-terminated line dropped, whatever came before it
swallow_any_lf(c, pos, line) == pos = 0 /\ line = <<LF>>

\* "treat \r\n as one newline"
swallow_lf(c, pos, line) == pos = 0 /\ line = <<LF>> /\ c.last_was_cr

\* the carry-over flag left as it was
note_cr_never(c, line) == c

\* self.last_was_cr = line.last() == Some(&b'\r')
note_cr(c, line) == [c EXCEPT !.last_was_cr = (line[Len(line)] = CR)]

\* one entry of the history: what one iteration of the loop did
Entry(kind, raw, term, bom, text, pre, post, ev) ==
    [kind |-> kind, raw |-> raw, term |-> term, bom |-> bom, text |-> text,
     pre |-> pre, post |-> post, ev |-> ev]

RECURSIVE decode_loop(_, _, _)
decode_loop(c, buf, log) ==
    LET pos == memchr2(buf, 1)
    IN  IF pos = -1
        THEN [codec |-> c, src |-> buf, ret |-> OkNone, log |-> log]
        ELSE
        LET line == Take(buf, pos + 1)
            tail == Drop(buf, pos + 1)
        IN  IF swallow_lf(c, pos, line)
            THEN LET c0 == [c EXCEPT !.last_was_cr = FALSE]
                 IN  decode_loop(c0, tail,
                        Append(log, Entry("skip", <<>>, LF, FALSE, <<>>, c, c0, None)))
            ELSE
            LET c1 == note_cr(c, line)
                raw == Take(line, pos)
                term == line[Len(line)]
            IN  IF ~from_utf8(raw)
                THEN [codec |-> c1, src |-> tail, ret |-> ErrUtf8,
                      log |-> Append(log,
                                Entry("err", raw, term, FALSE, raw, c, c1, None))]
                ELSE
                LET b == strip_bom(c1, raw)
                    p == parse_line(b.codec, b.line)
                    log1 == Append(log,
                              Entry("line", raw, term, b.bom, b.line,
                                    b.codec, p.codec, p.ev))
                IN  IF p.ev # None
                    THEN [codec |-> p.codec, src |-> tail,
                          ret |-> OkSome(p.ev[1]), log |-> log1]
                    ELSE decode_loop(p.codec, tail, log1)

\* decode with the carry-over CR flag local to one call instead of a field
decode_local_cr(c, buf) ==
    decode_loop([c EXCEPT !.last_was_cr = FALSE], buf, <<>>)

\* decode that empties the buffer when it finds no event in it
decode_clear(c, buf) ==
    LET r == decode_loop(c, buf, <<>>)
    IN  IF r.ret.kind = "None" THEN [r EXCEPT !.src = <<>>] ELSE r

\* decode that returns at an LF it should skip, leaving it in the buffer
decode_stall(c, buf) ==
    IF buf # <<>> /\ buf[1] = LF /\ c.last_was_cr
    THEN [codec |-> c, src |-> buf, ret |-> OkNone, log |-> <<>>]
    ELSE decode_loop(c, buf, <<>>)

\* one call of Decoder::decode on the codec and the buffer
decode(c, buf) == decode_loop(c, buf, <<>>)

\* the framing layer's loop: decode until it returns Ok(None), collecting
\* every event and error on the way
RECURSIVE Drain(_, _, _)
Drain(c, buf, acc) ==
    LET r == decode(c, buf)
    IN  IF r.ret.kind = "None"
        THEN [codec |-> r.codec, src |-> r.src, out |-> acc]
        ELSE Drain(r.codec, r.src, Append(acc, r.ret))

----------------------------------------------------------------------------
(* Display for Event and Encoder::encode                                   *)

\* str::lines: the text cut at each LF, a CR directly before the LF dropped
\* with it; no empty last line when the text ends in LF; nothing for "".
\* (A CR at the very end of a text that does not end in LF is kept, as the
\* standard library documents it; toolchains before Rust 1.77 dropped it.)
RECURSIVE StrLines(_)
StrLines(t) ==
    IF t = <<>> THEN <<>>
    ELSE LET k == IF \E i \in 1..Len(t) : t[i] = LF
                  THEN CHOOSE i \in 1..Len(t) :
                           t[i] = LF /\ \A j \in 1..(i - 1) : t[j] # LF
                  ELSE 0
         IN  IF k = 0 THEN <<t>>
             ELSE LET l == Take(t, k - 1)
                      l1 == IF l # <<>> /\ l[Len(l)] = CR
                            THEN Take(l, Len(l) - 1) ELSE l
                  IN  <<l1>> \o StrLines(Drop(t, k))

RECURSIVE FmtDataLines(_)
FmtDataLines(ls) ==
    IF ls = <<>> THEN <<>>
    ELSE S_data \o <<COLON, SP>> \o ls[1] \o <<LF>> \o FmtDataLines(Drop(ls, 1))

\* a Display that writes the event line of every Message
fmt_always_event(ev) ==
    IF ev.type = "Message"
    THEN S_event \o <<COLON, SP>> \o ev.event \o <<LF>>
         \o FmtDataLines(StrLines(ev.data))
    ELSE IF ev.type = "Retry"
    THEN S_retry \o <<COLON, SP>> \o FmtU64(ev.retry) \o <<LF>>
    ELSE IF ev.id = <<>>
    THEN S_id \o <<LF>>
    ELSE S_id \o <<COLON, SP>> \o ev.id \o <<LF>>

\* impl fmt::Display for Event
fmt(ev) ==
    IF ev.type = "Message"
    THEN (IF ev.event # S_message
          THEN S_event \o <<COLON, SP>> \o ev.event \o <<LF>> ELSE <<>>)
         \o FmtDataLines(StrLines(ev.data))
    ELSE IF ev.type = "Retry"
    THEN S_retry \o <<COLON, SP>> \o FmtU64(ev.retry) \o <<LF>>
    ELSE IF ev.id = <<>>
    THEN S_id \o <<LF>>
    ELSE S_id \o <<COLON, SP>> \o ev.id \o <<LF>>

\* the event written without the line feed that ends the frame
encode_unterminated(item) == fmt(item)

\* Encoder::encode: writeln!(dest, "{}", item), the bytes appended to dest
encode(item) == fmt(item) \o <<LF>>

IncompleteFrame == [kind |-> "IncompleteFrame", ev |-> None]

\* a match that takes any event
is_some(ev) == ev # None

\* the pattern Some(message @ Event::Message { .. })
is_message(ev) == ev # None /\ ev[1].type = "Message"

\* the loop of from_str over the lines left, with the codec it keeps
RECURSIVE from_str_loop(_, _, _)
from_str_loop(c, ls, log) ==
    IF ls = <<>> THEN [ret |-> IncompleteFrame, log |-> log]
    ELSE LET p == parse_line(c, ls[1])
             log1 == Append(log, Entry("line", ls[1], LF, FALSE, ls[1],
                                       c, p.codec, p.ev))
         IN  IF is_message(p.ev)
             THEN [ret |-> OkSome(p.ev[1]), log |-> log1]
             ELSE from_str_loop(p.codec, Drop(ls, 1), log1)

\* impl FromStr for Event
from_str(s) == from_str_loop(SSECodecDefault, StrLines(s), <<>>)

----------------------------------------------------------------------------
(* Inputs                                                                  *)

MaxTokens == 3

Tokens ==
    { S_data, S_id, S_event, S_retry, <<COLON>>, <<SP>>, <<LF>>, <<CR>>,
      <<120>>, <<49>>, <<NUL>>, S_bom, <<255>> }

RECURSIVE TokenStreams(_)
TokenStreams(n) ==
    IF n = 0 THEN { <<>> }
    ELSE LET shorter == TokenStreams(n - 1)
         IN  shorter \cup { s \o t : s \in shorter, t \in Tokens }

\* longer inputs: the inputs of the crate's tests (mod wpt) with their
\* payloads shortened, and variations of them
X == <<120>>
Y == <<121>>
One == <<49>>
Field(name, value) == name \o <<COLON>> \o value

\* wpt::decode_stream_when_fed_by_line: an id line inside a frame
ScIdInFrame ==
    Field(S_data, X) \o <<LF>> \o Field(S_id, One) \o <<LF>>
    \o Field(S_data, Y) \o <<LF, LF>>
ScFedByLine ==
    Field(<<>>, X) \o <<LF, LF>> \o Field(S_event, S_message) \o <<LF>>
    \o Field(S_id, <<SP>> \o One) \o <<LF>> \o Field(S_data, X) \o <<LF, LF>>
\* wpt::newlines
ScNewlines ==
    Field(S_data, X) \o <<CR, LF>> \o S_data \o <<LF>>
    \o Field(S_data, Y) \o <<CR, LF, CR>>
ScCrLfLf == Field(S_data, X) \o <<CR, LF, LF>> \o Field(S_data, Y) \o <<CR, CR>>
\* wpt::bom, wpt::bom2 and a mark that is not at the start of the stream
ScBom ==
    S_bom \o Field(S_data, One) \o <<LF, LF>>
    \o S_bom \o Field(S_data, X) \o <<LF, LF>> \o Field(S_data, Y) \o <<LF, LF>>
ScBom2 ==
    S_bom \o S_bom \o Field(S_data, One) \o <<LF, LF>>
    \o Field(S_data, X) \o <<LF, LF>>
ScLateBom ==
    Field(S_data, One) \o <<LF, LF>> \o S_bom \o Field(S_data, X) \o <<LF, LF>>
\* wpt::field_retry, wpt::field_retry_bogus, wpt::field_retry_empty
ScRetry ==
    Field(S_retry, <<Digit0, 51, Digit0>>) \o <<LF>>
    \o Field(S_retry, <<49, 120>>) \o <<LF>> \o S_retry \o <<LF>>
    \o Field(S_data, X) \o <<LF, LF>>
ScRetryMax == Field(S_retry, [i \in 1..20 |-> U64MaxDigits[i] + Digit0]) \o <<LF>>
ScRetryOver ==
    Field(S_retry, [i \in 1..20 |-> IF i = 20 THEN 54 ELSE U64MaxDigits[i] + Digit0])
    \o <<LF>>
ScRetrySpace == Field(S_retry, <<SP>> \o One) \o <<LF>>
\* wpt::field_data
ScFieldData ==
    Field(S_data, <<>>) \o <<LF, LF>> \o S_data \o <<LF>> \o S_data \o <<LF, LF>>
    \o Field(S_data, X) \o <<LF, LF>>
\* wpt::field_event_empty, wpt::field_event
ScEvent ==
    Field(S_event, <<SP>>) \o <<LF>> \o Field(S_data, X) \o <<LF, LF>>
    \o Field(S_event, X) \o <<LF>> \o Field(S_event, Y) \o <<LF>>
    \o Field(S_data, X) \o <<LF, LF>> \o Field(S_data, Y) \o <<LF, LF>>
\* wpt::leading_space
ScLeadingSpace ==
    Field(S_data, <<9>> \o X) \o <<CR>> \o Field(S_data, <<SP>>) \o <<LF>>
    \o Field(S_data, <<SP, SP>> \o X \o <<SP>>) \o <<LF>>
    \o Field(S_event, <<SP, SP>> \o Y) \o <<LF, LF>>
\* a line that is not UTF-8 inside a frame
ScBadUtf8 ==
    Field(S_data, X) \o <<LF>> \o <<255, CR, LF>> \o Field(S_data, Y) \o <<LF, LF>>

\* wpt::data_before_final_empty_line: the stream ends inside a frame
ScFinalFragment ==
    Field(S_retry, One) \o <<LF>> \o Field(S_data, X) \o <<LF, LF>>
    \o Field(S_id, One) \o <<LF>> \o Field(S_data, Y)
\* wpt::field_parsing, wpt::field_unknown, wpt::comments: names that are not
\* field names, a comment, an id with U+0000, retry values that are no number
ScMalformed ==
    Field(<<68, 97, 116, 97>>, X) \o <<LF>> \o Field(<<SP>> \o S_data, X) \o <<LF>>
    \o Field(S_data \o <<NUL>>, X) \o <<LF>> \o Field(<<>>, S_data) \o <<CR>>
    \o Field(S_id, X \o <<NUL>>) \o <<LF>> \o Field(S_retry, <<>>) \o <<LF>>
    \o Field(S_retry, One) \o <<LF>> \o Field(<<100, 97, 45, 116, 97>>, X)
    \o <<LF>> \o Field(S_data, Y) \o <<LF, LF>>
\* wpt::null_character and wpt::field_event: blank lines without data
ScBlankLines ==
    Field(S_event, X) \o <<LF, LF>> \o Field(S_data, Y) \o <<LF, LF, LF, LF>>
    \o Field(S_event, X) \o <<LF>> \o S_event \o <<LF>>
    \o Field(S_data, Y) \o <<LF, LF>>
\* wpt::field_unknown and wpt::comments: lines to ignore inside a frame
ScIgnoredInFrame ==
    Field(S_event, X) \o <<LF>> \o Field(S_data, Y) \o <<LF>>
    \o Field(<<>>, X) \o <<LF>> \o Field(<<68, 97, 116, 97>>, X) \o <<LF>>
    \o Field(<<SP>> \o S_data, X) \o <<LF>> \o Field(S_retry, One) \o <<LF>>
    \o Field(S_retry, X) \o <<LF>> \o Field(S_data \o <<NUL>>, X)
    \o <<LF, LF>>
\* id lines to ignore inside a frame: no colon, then U+0000 in the value
ScIdIgnored ==
    Field(S_event, X) \o <<LF>> \o Field(S_data, Y) \o <<LF>>
    \o S_id \o <<LF>> \o Field(S_id, One \o <<NUL>>) \o <<LF, LF>>

Scenarios ==
    { ScIdIgnored, ScIgnoredInFrame, ScFinalFragment, ScMalformed, ScBlankLines, ScIdInFrame, ScFedByLine, ScNewlines, ScCrLfLf, ScBom, ScBom2, ScLateBom,
      ScRetry, ScRetryMax, ScRetryOver, ScRetrySpace, ScFieldData, ScEvent,
      ScLeadingSpace, ScBadUtf8 }

Streams == TokenStreams(MaxTokens) \cup Scenarios

----------------------------------------------------------------------------
(* The decode pipeline as a state machine                                  *)

Init ==
    /\ stream \in Streams
    /\ rest = stream
    /\ src = <<>>
    /\ codec = SSECodecDefault
    /\ ret = OkNone
    /\ out = <<>>
    /\ lines = <<>>
    /\ sent = <<>>

\* the transport delivers the next byte and the framing layer appends it to
\* the buffer.  A read of k bytes is k of these steps with no decode call
\* between them, so every way of cutting the stream into chunks is a
\* behaviour: the chunk boundaries are where Decode steps fall.
Deliver ==
    /\ rest # <<>>
    /\ src' = Append(src, Head(rest))
    /\ rest' = Tail(rest)
    /\ UNCHANGED <<stream, codec, ret, out, lines, sent>>

\* the framing layer calls decode once
Decode ==
    /\ LET r == decode(codec, src)
       IN  /\ codec' = r.codec
           /\ src' = r.src
           /\ ret' = r.ret
           /\ out' = IF r.ret.kind = "None" THEN out ELSE Append(out, r.ret)
           /\ lines' = lines \o r.log
    /\ UNCHANGED <<stream, rest, sent>>

Next == Deliver \/ Decode

Spec == Init /\ [][Next]_vars

----------------------------------------------------------------------------
(* The encoder feeding a decoder: encode_stream's output is the input of   *)
(* decode_stream                                                           *)

MaxSent == 1

EventNames ==
    { S_message, <<>>, <<SP>> \o X \o <<COLON>>, X \o <<LF>> \o Y }
DataTexts ==
    { <<>>, X \o <<LF>> \o Y, <<LF>> \o X, X \o <<LF>>, X \o <<CR>> \o Y,
      X \o <<CR, LF>> \o Y,
      <<SP>> \o X \o <<SP>>, Field(S_id, <<NUL>>) }
Items ==
    { Message(e, d) : e \in EventNames, d \in DataTexts }
    \cup { Retry(n) : n \in { <<0>>, <<3, 0>>, U64MaxDigits } }
    \cup { LastEventId(i) : i \in { <<>>, One, <<SP>> \o One } }

InitRT ==
    /\ stream = <<>>
    /\ rest = <<>>
    /\ src = <<>>
    /\ codec = SSECodecDefault
    /\ ret = OkNone
    /\ out = <<>>
    /\ lines = <<>>
    /\ sent = <<>>

\* the sink takes one event: its bytes go on the wire
Encode ==
    /\ Len(sent) < MaxSent
    /\ \E item \in Items :
          /\ sent' = Append(sent, item)
          /\ stream' = stream \o encode(item)
          /\ rest' = rest \o encode(item)
    /\ UNCHANGED <<src, codec, ret, out, lines>>

NextRT == Encode \/ Deliver \/ Decode

SpecRT == InitRT /\ [][NextRT]_vars

\* ENABLED <<Decode>>_vars written as a state predicate: the call that
\* Decode makes would change some variable
DecodeChanges ==
    LET r == decode(codec, src)
    IN  \/ r.codec # codec \/ r.src # src \/ r.ret # ret
        \/ r.ret.kind # "None" \/ r.log # <<>>

\* the framing layer keeps reading while the transport has bytes, and keeps
\* calling decode while a call changes anything: weak fairness of both
\* actions.  That of Decode is WF_vars(Decode) with its ENABLED written out.
Fairness ==
    /\ WF_vars(Deliver)
    /\ ([]<>~DecodeChanges \/ []<><<Decode>>_vars)

SpecLive == Init /\ [][Next]_vars /\ Fairness

----------------------------------------------------------------------------
(* The single-string parse: one call of from_str on a whole text           *)

InitParse ==
    /\ stream \in { s \in Streams : ValidUtf8(s) }
    /\ rest = <<>>
    /\ src = <<>>
    /\ codec = SSECodecDefault
    /\ ret = OkNone
    /\ out = <<>>
    /\ lines = <<>>
    /\ sent = <<>>

\* text.parse::<Event>(): the codec is local to the call and dropped
FromStr ==
    /\ out = <<>>
    /\ LET r == from_str(stream)
       IN  /\ ret' = r.ret
           /\ out' = <<r.ret>>
           /\ lines' = r.log
    /\ UNCHANGED <<stream, rest, src, codec, sent>>

NextParse == FromStr

SpecParse == InitParse /\ [][NextParse]_vars

----------------------------------------------------------------------------
(* Properties                                                              *)

\* the bytes decode has consumed so far
Consumed == Take(stream, Len(stream) - Len(rest) - Len(src))

\* C1: chunk-boundary invariance.  However the stream was cut into
\* deliveries and whenever decode was called in between, what has been
\* returned so far followed by what draining the remaining bytes returns is
\* what draining the whole stream at once returns, and the decoder state and
\* the unconsumed bytes end up the same.
ChunkBoundaryInvariance ==
    LET whole == Drain(SSECodecDefault, stream, <<>>)
        now == Drain(codec, src \o rest, <<>>)
    IN  /\ out \o now.out = whole.out
        /\ now.codec = whole.codec
        /\ now.src = whole.src

\* a delivery ended between a CR and its LF, decode consumed the CR and has
\* returned something, and the LF is still with the transport
ChunkSplitsCrLf ==
    /\ rest # <<>> /\ rest[1] = LF
    /\ src = <<>> /\ codec.last_was_cr
    /\ out # <<>>


----------------------------------------------------------------------------
(* The wire format's lines, read off the bytes directly (spec section 6:   *)
(* line ::= field (LF | CR | CR LF)): the complete lines of a byte string, *)
(* without their terminators.  A CR at the very end ends a line.           *)

RECURSIVE RefLines(_)
RefLines(s) ==
    IF \A i \in 1..Len(s) : s[i] # CR /\ s[i] # LF THEN <<>>
    ELSE LET k == CHOOSE i \in 1..Len(s) :
                      /\ s[i] = CR \/ s[i] = LF
                      /\ \A j \in 1..(i - 1) : s[j] # CR /\ s[j] # LF
             n == IF s[k] = CR /\ k < Len(s) /\ s[k + 1] = LF THEN k + 1 ELSE k
         IN  <<Take(s, k - 1)>> \o RefLines(Drop(s, n))

IsLineEntry(e) == e.kind = "line"
NotSkipEntry(e) == e.kind # "skip"
RawOf(es) == [i \in 1..Len(es) |-> es[i].raw]

\* the bytes an iteration of the loop removed from the buffer
BytesOf(e) == IF e.kind = "skip" THEN <<LF>> ELSE e.raw \o <<e.term>>
RECURSIVE Flatten(_)
Flatten(es) == IF es = <<>> THEN <<>> ELSE BytesOf(es[1]) \o Flatten(Drop(es, 1))

\* what the field parser yields when it is given the lines one by one
RECURSIVE Replay(_, _, _)
Replay(c, ls, acc) ==
    IF ls = <<>> THEN acc
    ELSE IF ~ValidUtf8(ls[1]) THEN Replay(c, Drop(ls, 1), Append(acc, ErrUtf8))
    ELSE LET b == strip_bom(c, ls[1])
             p == parse_line(b.codec, b.line)
         IN  Replay(p.codec, Drop(ls, 1),
                    IF p.ev = None THEN acc ELSE Append(acc, OkSome(p.ev[1])))

\* C2 as stated: every complete line of the consumed stream went to the
\* field parser, once and in order.
EveryLineParsedOnce ==
    RawOf(SelectSeq(lines, IsLineEntry)) = RefLines(Consumed)

\* C2 (amended): the lines handed to the field parser are exactly the
\* complete lines of the consumed bytes that are valid UTF-8, once each and
\* in stream order; the results returned so far are what the parser yields
\* on those lines in that order (an error for each line that is not UTF-8);
\* and a decode call returns at most one result, which comes from the last
\* line it took, and removes from the buffer exactly the lines it took, so
\* every byte after the triggering line's terminator stays in the buffer.
StrictOrderInv ==
    /\ RawOf(SelectSeq(lines, IsLineEntry))
          = SelectSeq(RefLines(Consumed), ValidUtf8)
    /\ out = Replay(SSECodecDefault, RefLines(Consumed), <<>>)

StrictOrderStep ==
    (lines' # lines \/ out' # out) =>
        LET new == SubSeq(lines', Len(lines) + 1, Len(lines'))
        IN  /\ Len(lines) <= Len(lines') /\ Take(lines', Len(lines)) = lines
            /\ Flatten(new) \o src' = src
            /\ \A i \in 1..(Len(new) - 1) :
                   new[i].ev = None /\ new[i].kind # "err"
            /\ IF ret'.kind = "None"
               THEN /\ out' = out
                    /\ \A i \in 1..Len(new) : new[i].ev = None /\ new[i].kind # "err"
               ELSE /\ out' = Append(out, ret')
                    /\ new # <<>>
                    /\ new[Len(new)].ev = ret'.ev
                    /\ (new[Len(new)].kind = "err") = (ret'.kind = "Utf8Error")

\* C2 (amended), invariant and step parts together
StrictOrder == [](StrictOrderInv) /\ [][StrictOrderStep]_vars

\* a decode call took several lines, returned the event of the last one and
\* left bytes behind it in the buffer
EventLeavesLaterBytes ==
    /\ ret.kind = "Some" /\ src # <<>>
    /\ Len(lines) >= 3 /\ lines[Len(lines)].ev = ret.ev
    /\ Len(out) >= 2

\* C10: LF, CR and CR LF each end exactly one line.  The lines the decoder
\* has taken are the lines of the consumed bytes; an LF is dropped only
\* directly after a line that a CR ended, and never two in a row.
OneLinePerTerminator ==
    /\ RawOf(SelectSeq(lines, NotSkipEntry)) = RefLines(Consumed)
    /\ \A i \in 1..Len(lines) :
          lines[i].kind = "skip" =>
             i > 1 /\ lines[i - 1].kind # "skip" /\ lines[i - 1].term = CR

\* CR LF LF was read as one terminator and one blank line: the data line,
\* the dropped LF, then the blank line that dispatched the message
CrLfLfRead ==
    /\ Len(lines) >= 3
    /\ lines[1].term = CR /\ lines[2].kind = "skip"
    /\ lines[3].kind = "line" /\ lines[3].raw = <<>> /\ lines[3].term = LF
    /\ lines[3].ev # None
    /\ codec.last_was_cr = FALSE

----------------------------------------------------------------------------
(* Frames, read off the history of lines                                   *)

IsBlank(e) == e.kind = "line" /\ e.text = <<>>
HasName(e, name) == e.kind = "line" /\ FieldName(e.text) = name

\* the value of a field line: the text after the first colon, less one
\* leading space; empty without a colon
ValueOf(e) ==
    LET k == ColonAt(e.text, 1)
        v == IF k = 0 THEN <<>> ELSE Drop(e.text, k)
    IN  IF v # <<>> /\ v[1] = SP THEN Drop(v, 1) ELSE v

\* an id line the parser accepts: a colon, and no U+0000 after it
IsIdLine(e) ==
    /\ HasName(e, S_id) /\ ColonAt(e.text, 1) # 0
    /\ ~Contains(Drop(e.text, ColonAt(e.text, 1)), NUL)

\* index of the first line of the frame that line j belongs to
FrameStart(j) ==
    LET blanks == { i \in 1..(j - 1) : IsBlank(lines[i]) }
    IN  IF blanks = {} THEN 1
        ELSE 1 + CHOOSE i \in blanks : \A k \in blanks : k <= i

\* index of the blank line that ends the frame of line i, 0 if none yet
FrameEnd(i) ==
    LET blanks == { j \in (i + 1)..Len(lines) : IsBlank(lines[j]) }
    IN  IF blanks = {} THEN 0
        ELSE CHOOSE j \in blanks : \A k \in blanks : j <= k

\* the values of the data field lines among lines a..b, in order
RECURSIVE DataValues(_, _)
DataValues(a, b) ==
    IF a > b THEN <<>>
    ELSE IF HasName(lines[a], S_data)
    THEN <<ValueOf(lines[a])>> \o DataValues(a + 1, b)
    ELSE DataValues(a + 1, b)

RECURSIVE JoinLF(_)
JoinLF(vs) ==
    IF vs = <<>> THEN <<>>
    ELSE IF Len(vs) = 1 THEN vs[1]
    ELSE vs[1] \o <<LF>> \o JoinLF(Drop(vs, 1))

\* the results of the lines, in line order
RECURSIVE ResultsOf(_)
ResultsOf(es) ==
    IF es = <<>> THEN <<>>
    ELSE (IF es[1].kind = "err" THEN <<ErrUtf8>>
          ELSE IF es[1].ev # None THEN <<OkSome(es[1].ev[1])>>
          ELSE <<>>) \o ResultsOf(Drop(es, 1))

BlankLineJoinsData ==
    \A j \in 1..Len(lines) :
        (IsBlank(lines[j]) /\ lines[j].pre.data # <<>>) =>
           /\ lines[j].ev # None
           /\ lines[j].ev[1].type = "Message"
           /\ lines[j].ev[1].data = JoinLF(DataValues(FrameStart(j), j))
           /\ lines[j].post.data = <<>>

\* one empty data field gave data "", two gave a single LF
EmptyDataFieldsDecoded ==
    /\ stream = ScFieldData /\ rest = <<>> /\ src = <<>>
    /\ out = <<OkSome(Message(S_message, <<>>)),
               OkSome(Message(S_message, <<LF>>)),
               OkSome(Message(S_message, X))>>

----------------------------------------------------------------------------
(* Byte-order mark                                                         *)

\* C6: a byte-order mark is stripped only from the very first line the
\* decoder produces; on every later line a leading mark stays in the line.
BomStrippedOnlyOnFirstLine ==
    \A i \in 1..Len(lines) :
        lines[i].bom => \A k \in 1..(i - 1) : lines[k].kind = "skip"

\* C7: one decoder strips at most one byte-order mark in its life and only
\* one per line: a stripped line loses exactly the three bytes of one mark,
\* and when a second mark follows, the line is ignored (no event, pending
\* event and data unchanged), so that a blank line right after such a first
\* line dispatches nothing.
AtMostOneBomStripped ==
    /\ Cardinality({ i \in 1..Len(lines) : lines[i].bom }) <= 1
    /\ \A i \in 1..Len(lines) :
          /\ lines[i].bom =>
                /\ lines[i].raw = S_bom \o lines[i].text
                /\ lines[i].post.processed_bom
          /\ (lines[i].bom /\ StartsWith(lines[i].text, S_bom)) =>
                /\ lines[i].ev = None
                /\ lines[i].post.event = lines[i].pre.event
                /\ lines[i].post.data = lines[i].pre.data
                /\ (i = 1 /\ Len(lines) >= 2 /\ IsBlank(lines[2])) =>
                      lines[2].ev = None

\* wpt::bom2: two marks, data:1, blank line: the first line kept one mark
\* and was ignored, the blank line dispatched nothing, the next frame did
TwoMarksDecoded ==
    /\ stream = ScBom2 /\ rest = <<>> /\ src = <<>>
    /\ lines[1].bom /\ StartsWith(lines[1].text, S_bom)
    /\ IsBlank(lines[2]) /\ lines[2].ev = None
    /\ out = <<OkSome(Message(S_message, X))>>

----------------------------------------------------------------------------
(* retry and the leading space                                             *)

\* the text after the first colon, as it stands
RawValueOf(e) ==
    LET k == ColonAt(e.text, 1) IN IF k = 0 THEN <<>> ELSE Drop(e.text, k)
HasColon(e) == ColonAt(e.text, 1) # 0

\* the number a short string of ASCII digits denotes
RECURSIVE NatOfAscii(_)
NatOfAscii(v) ==
    IF v = <<>> THEN 0
    ELSE 10 * NatOfAscii(Take(v, Len(v) - 1)) + (v[Len(v)] - Digit0)

\* d is the canonical form of the number the ASCII digits v denote: v is
\* zeros followed by the digits of d, and d has no leading zero
DenotesSame(v, d) ==
    LET z == Len(v) - Len(d)
    IN  /\ Len(d) >= 1 /\ z >= 0
        /\ (Len(d) > 1 => d[1] # 0)
        /\ \A i \in 1..z : v[i] = Digit0
        /\ \A i \in 1..Len(d) : v[z + i] = d[i] + Digit0
        /\ (Len(v) <= 9 =>
               NatOfAscii(v) = NatOfAscii([i \in 1..Len(d) |-> d[i] + Digit0]))

OneLeadingSpaceStripped ==
    \A i \in 1..Len(lines) :
        LET e == lines[i]
            v == ValueOf(e)
        IN  /\ (HasName(e, S_event) /\ HasColon(e)) => e.post.event = Some(v)
            /\ HasName(e, S_data) => e.post.data = e.pre.data \o v \o <<LF>>
            /\ IsIdLine(e) => e.ev = Some(LastEventId(v))
            /\ ( /\ HasName(e, S_retry) /\ HasColon(e)
                  /\ v # <<>> /\ AllAsciiDigits(v) /\ Len(v) <= 9 ) =>
                    /\ e.ev # None
                    /\ e.ev[1].type = "Retry"
                    /\ DenotesSame(v, e.ev[1].retry)

----------------------------------------------------------------------------
(* Round trips                                                             *)

NoByte(t, b) == \A i \in 1..Len(t) : t[i] # b

\* a Message as C4 takes it: no CR or LF in the event name; data non-empty,
\* without CR and not ending in LF
RoundTrippable(m) ==
    /\ m.type = "Message"
    /\ NoByte(m.event, CR) /\ NoByte(m.event, LF)
    /\ m.data # <<>> /\ NoByte(m.data, CR) /\ m.data[Len(m.data)] # LF

\* C4: the bytes Encoder::encode writes for such a Message, read by a
\* decoder that started fresh, give that Message and nothing else: what has
\* been returned so far, followed by what draining the rest returns, is
\* exactly the Messages sent.
MessageRoundTrip ==
    (\A i \in 1..Len(sent) : RoundTrippable(sent[i])) =>
        out \o Drain(codec, src \o rest, <<>>).out
          = [i \in 1..Len(sent) |-> OkSome(sent[i])]

\* a two-line Message named "message" went over the wire without an event
\* line and came back whole
MessageCameBack ==
    /\ sent = <<Message(S_message, X \o <<LF>> \o Y)>>
    /\ stream = S_data \o <<COLON, SP>> \o X \o <<LF>>
                 \o S_data \o <<COLON, SP>> \o Y \o <<LF, LF>>
    /\ rest = <<>> /\ src = <<>>
    /\ out = <<OkSome(sent[1])>>

----------------------------------------------------------------------------
(* The end of the stream and calls that find nothing                       *)

\* everything has been delivered and decode has taken every complete line
StreamDone == rest = <<>> /\ memchr2(src, 1) = -1

\* C11: when the stream ends inside a frame, the lines after the last blank
\* line produce no event: once the stream is done, every line that yielded
\* an event is a blank line or is followed by one.
FinalFragmentYieldsNothing ==
    StreamDone =>
        \A i \in 1..Len(lines) :
            lines[i].ev # None => (IsBlank(lines[i]) \/ FrameEnd(i) # 0)

\* the bytes of a buffer after its last line terminator
RECURSIVE UnterminatedTail(_)
UnterminatedTail(buf) ==
    IF buf = <<>> \/ buf[Len(buf)] = CR \/ buf[Len(buf)] = LF THEN <<>>
    ELSE Append(UnterminatedTail(Take(buf, Len(buf) - 1)), buf[Len(buf)])

\* C12: in every reachable state, a decode call on a buffer without a line
\* terminator returns "no event" and changes neither the buffer nor any
\* field of the decoder; and a decode call that returns "no event" leaves
\* the unterminated bytes at the end of the buffer in the buffer.
DecodeWithoutLineIsNoOp ==
    LET r == decode(codec, src)
    IN  /\ (\A i \in 1..Len(src) : src[i] # CR /\ src[i] # LF) =>
              /\ r.ret = OkNone
              /\ r.src = src
              /\ r.codec = codec
        /\ r.ret = OkNone => r.src = UnterminatedTail(src)

\* decode has just returned "no event" after taking lines that left data
\* pending, and the unterminated bytes are still in the buffer
NoEventKeptTail ==
    /\ ret = OkNone /\ lines # <<>>
    /\ src # <<>> /\ memchr2(src, 1) = -1
    /\ codec.data # <<>>

----------------------------------------------------------------------------
(* Errors                                                                  *)

IsErrEntry(e) == e.kind = "err"
IsErrResult(r) == r.kind = "Utf8Error"
IsAscii(t) == \A i \in 1..Len(t) : t[i] < 128

\* C13 as stated: a line that is not valid UTF-8 leaves every field of the
\* decoder, last_was_cr included, as it was before that line.
ErrorLeavesAllState ==
    \A i \in 1..Len(lines) :
        lines[i].kind = "err" => lines[i].post = lines[i].pre

\* C13 (amended): a complete line that is not valid UTF-8 makes decode
\* return the invalid-byte-sequence error, once for each such line, and
\* leaves processed_bom and the pending id, event and data as they were;
\* last_was_cr is set by the failing line like by any other: true exactly
\* when a CR ended it.
ErrorLeavesBuffers ==
    /\ Len(SelectSeq(out, IsErrResult)) = Len(SelectSeq(lines, IsErrEntry))
    /\ \A i \in 1..Len(lines) :
          /\ lines[i].kind = "err" =>
                /\ ~ValidUtf8(lines[i].raw)
                /\ lines[i].ev = None
                /\ lines[i].post.processed_bom = lines[i].pre.processed_bom
                /\ lines[i].post.id = lines[i].pre.id
                /\ lines[i].post.event = lines[i].pre.event
                /\ lines[i].post.data = lines[i].pre.data
                /\ lines[i].post.last_was_cr = (lines[i].term = CR)
          /\ lines[i].kind = "line" => ValidUtf8(lines[i].raw)

\* a line of one byte 0xFF ended by CR LF came while data was pending: the
\* error was returned, the data kept, and the frame completed afterwards
ErrorInsideFrame ==
    /\ stream = ScBadUtf8 /\ rest = <<>> /\ src = <<>>
    /\ lines[2].kind = "err" /\ lines[2].pre.data = X \o <<LF>>
    /\ ~lines[2].pre.last_was_cr /\ lines[2].post.last_was_cr
    /\ out = <<ErrUtf8, OkSome(Message(S_message, X \o <<LF>> \o Y))>>

\* the name of a field line, cut at the first colon
NameOf(e) ==
    IF \E i \in 1..Len(e.text) : e.text[i] = COLON
    THEN Take(e.text, (CHOOSE i \in 1..Len(e.text) :
                          e.text[i] = COLON
                          /\ \A j \in 1..(i - 1) : e.text[j] # COLON) - 1)
    ELSE e.text
IsComment(e) == e.kind = "line" /\ e.text # <<>> /\ e.text[1] = COLON
IsUnknownField(e) ==
    /\ e.kind = "line"
    /\ NameOf(e) \notin { <<>>, S_data, S_id, S_event, S_retry }
\* a string of ASCII digits that denotes a number above 2^64 - 1
AboveU64(v) ==
    LET d == StripZeros([k \in 1..Len(v) |-> v[k] - Digit0])
        m == <<1, 8, 4, 4, 6, 7, 4, 4, 0, 7, 3, 7, 0, 9, 5, 5, 1, 6, 1, 5>>
    IN  \/ Len(d) > Len(m)
        \/ /\ Len(d) = Len(m)
           /\ \E k \in 1..Len(m) :
                 d[k] > m[k] /\ \A j \in 1..(k - 1) : d[j] = m[j]
IsBadRetry(e) ==
    /\ e.kind = "line" /\ NameOf(e) = S_retry
    /\ \/ ~HasColon(e)
       \/ RawValueOf(e) = <<>>
       \/ ~AllAsciiDigits(RawValueOf(e))
       \/ AboveU64(RawValueOf(e))
IsNulId(e) ==
    /\ e.kind = "line" /\ NameOf(e) = S_id
    /\ HasColon(e) /\ Contains(RawValueOf(e), NUL)

\* C15: streaming decode reports an error only for a line that is not valid
\* UTF-8.  Every result is an event or that error; a line of ASCII bytes is
\* never an error; and a retry line whose value is no number, empty or has
\* more than twenty digits, an id line with U+0000, a line with an unknown
\* field name and a comment are taken by the parser and yield nothing.
OnlyUtf8IsAnError ==
    /\ ret.kind \in { "Some", "None", "Utf8Error" }
    /\ \A k \in 1..Len(out) : out[k].kind \in { "Some", "Utf8Error" }
    /\ \A i \in 1..Len(lines) :
          /\ (lines[i].kind # "skip" /\ IsAscii(lines[i].raw)) =>
                lines[i].kind = "line"
          /\ lines[i].kind = "err" => ~IsAscii(lines[i].raw)
          /\ ( \/ IsBadRetry(lines[i]) \/ IsNulId(lines[i])
               \/ IsUnknownField(lines[i]) \/ IsComment(lines[i]) ) =>
                lines[i].ev = None

\* lines with names that are no field names, a comment, an id with U+0000
\* and an empty retry were all taken without an error or an event
MalformedLinesDecoded ==
    /\ stream = ScMalformed /\ rest = <<>> /\ src = <<>>
    /\ \A i \in 1..Len(lines) : lines[i].kind = "line"
    /\ IsNulId(lines[5]) /\ IsBadRetry(lines[6]) /\ IsComment(lines[4])
    /\ out = <<OkSome(Retry(<<1>>)), OkSome(Message(S_message, Y))>>

----------------------------------------------------------------------------
(* The single-string parse                                                 *)

Parsed == out # <<>>
IsTriggerText(l) == l = <<>> \/ StartsWith(l, S_id \o <<COLON>>)

\* C14 as stated: from_str returns IncompleteFrame exactly when no line of
\* the text is a blank line or an `id:` line, and Ok otherwise.
IncompleteOnlyWithoutTrigger ==
    Parsed =>
        LET ls == StrLines(stream)
        IN  (ret.kind = "IncompleteFrame")
              <=> ~(\E i \in 1..Len(ls) : IsTriggerText(ls[i]))

\* C14 (amended): from_str parses the lines of the text in order from a
\* fresh decoder and returns Ok exactly when it reaches a blank line while
\* the data buffer is not empty; the value is the Message of the first such
\* line.  The LastEventId of an `id:` line and the Retry of a retry line are
\* dropped and parsing goes on, a blank line with an empty data buffer
\* yields nothing, and a text without a dispatching blank line gives
\* IncompleteFrame.
OkOnlyAtFirstMessage ==
    Parsed =>
        LET ls == StrLines(stream)
            n == Len(lines)
            hits == { i \in 1..n :
                        IsBlank(lines[i]) /\ lines[i].pre.data # <<>> }
        IN  /\ n <= Len(ls)
            /\ \A i \in 1..n : lines[i].text = ls[i]
            /\ ret.kind \in { "Some", "IncompleteFrame" }
            /\ (ret.kind = "IncompleteFrame") <=> (hits = {})
            /\ hits = {} => n = Len(ls)
            /\ hits # {} =>
                  /\ hits = { n }
                  /\ ret = OkSome(Message(
                               IF lines[n].pre.event = None THEN S_message
                               ELSE lines[n].pre.event[1],
                               JoinLF(DataValues(FrameStart(n), n - 1))))

\* a text with an id line inside its frame: the id line's event was dropped
\* and the blank line's Message returned
ParsedPastIdLine ==
    /\ Parsed /\ ret.kind = "Some"
    /\ \E i \in 1..Len(lines) :
          IsIdLine(lines[i]) /\ lines[i].ev # None /\ lines[i].pre.data # <<>>

----------------------------------------------------------------------------
(* Frames                                                                  *)

\* the indices among a..b of the event field lines the parser accepts
EventLinesIn(a, b) ==
    { k \in a..b : HasName(lines[k], S_event) /\ HasColon(lines[k]) }
NamedLinesIn(a, b, name) ==
    { k \in a..b : lines[k].kind = "line" /\ NameOf(lines[k]) = name }
IsMessageAt(i) == lines[i].ev # None /\ lines[i].ev[1].type = "Message"

\* C16: a blank line seen while the data buffer is empty, which is a blank
\* line with no data field line since the blank line before it, yields no
\* event and leaves the event type and the data buffer empty.  So blank
\* lines that follow a blank line yield nothing, and a Message whose frame
\* has no event line is named "message" whatever event lines came before
\* the frame.
EmptyDispatchClearsEvent ==
    \A i \in 1..Len(lines) :
        IsBlank(lines[i]) =>
            /\ (lines[i].pre.data = <<>>)
                  <=> (NamedLinesIn(FrameStart(i), i - 1, S_data) = {})
            /\ lines[i].pre.data = <<>> =>
                  /\ lines[i].ev = None
                  /\ lines[i].post.event = None
                  /\ lines[i].post.data = <<>>
            /\ (i > 1 /\ IsBlank(lines[i - 1])) => lines[i].ev = None
            /\ (IsMessageAt(i) /\ NamedLinesIn(FrameStart(i), i - 1, S_event) = {})
                  => lines[i].ev[1].event = S_message

\* `event:x` then a blank line dropped the name x; the Message of the next
\* frame is named "message" and the two blank lines after it gave nothing
EventDroppedByBlankLine ==
    /\ stream = ScBlankLines /\ rest = <<>> /\ src = <<>>
    /\ lines[1].post.event = Some(X)
    /\ IsBlank(lines[2]) /\ lines[2].ev = None /\ lines[2].post.event = None
    /\ lines[4].ev = Some(Message(S_message, Y))
    /\ IsBlank(lines[5]) /\ lines[5].ev = None
    /\ IsBlank(lines[6]) /\ lines[6].ev = None

\* C17: an event field line, with or without a colon, stores its value (the
\* empty string without a colon or with nothing after it) as the pending
\* event type, overwriting the earlier one, and yields no event; the Message
\* of the next blank line carries the value of the last event line of its
\* frame, and "message" only when the frame has none.
EventLineStoresValue ==
    \A i \in 1..Len(lines) :
        /\ (lines[i].kind = "line" /\ NameOf(lines[i]) = S_event) =>
              /\ lines[i].ev = None
              /\ lines[i].post.event = Some(ValueOf(lines[i]))
        /\ (IsBlank(lines[i]) /\ IsMessageAt(i)) =>
              LET evs == NamedLinesIn(FrameStart(i), i - 1, S_event)
              IN  lines[i].ev[1].event =
                    IF evs = {} THEN S_message
                    ELSE ValueOf(lines[CHOOSE k \in evs : \A j \in evs : j <= k])

\* C18: no Message mixes frames.  After every blank line, whether it yielded
\* a Message or nothing, the event type and the data buffer are empty; only
\* blank lines yield Messages; and the data of a Message is the data lines,
\* and its event the last accepted event line, of the lines after the blank
\* line before it.
NoMessageMixesFrames ==
    \A i \in 1..Len(lines) :
        /\ IsMessageAt(i) => IsBlank(lines[i])
        /\ IsBlank(lines[i]) =>
              /\ lines[i].post.event = None
              /\ lines[i].post.data = <<>>
              /\ IsMessageAt(i) =>
                    LET evs == EventLinesIn(FrameStart(i), i - 1)
                    IN  /\ lines[i].ev[1].data
                              = JoinLF(DataValues(FrameStart(i), i - 1))
                        /\ lines[i].ev[1].event =
                              IF evs = {} THEN S_message
                              ELSE ValueOf(lines[CHOOSE k \in evs :
                                                    \A j \in evs : j <= k])

\* three frames in a row, the second with two event lines: each Message has
\* the event and data of its own frame only
ThreeFramesDecoded ==
    /\ stream = ScEvent /\ rest = <<>> /\ src = <<>>
    /\ out = << OkSome(Message(<<>>, X)), OkSome(Message(Y, X)),
                OkSome(Message(S_message, Y)) >>

----------------------------------------------------------------------------
(* Serialization                                                           *)

\* the segments of a text between its line feeds: k line feeds, k+1 segments
RECURSIVE SegmentsLF(_)
SegmentsLF(t) ==
    IF NoByte(t, LF) THEN <<t>>
    ELSE LET k == CHOOSE i \in 1..Len(t) :
                      t[i] = LF /\ \A j \in 1..(i - 1) : t[j] # LF
         IN  <<Take(t, k - 1)>> \o SegmentsLF(Drop(t, k))

\* the lines of a text: its segments, without the empty segment after a
\* final line feed, and without the CR that stands right before a line feed
LinesOfData(t) ==
    LET segs == SegmentsLF(t)
        n == IF segs[Len(segs)] = <<>> THEN Len(segs) - 1 ELSE Len(segs)
    IN  [i \in 1..n |->
            IF i < Len(segs) /\ segs[i] # <<>> /\ segs[i][Len(segs[i])] = CR
            THEN Take(segs[i], Len(segs[i]) - 1) ELSE segs[i]]

RECURSIVE DataLinesOf(_)
DataLinesOf(ls) ==
    IF ls = <<>> THEN <<>>
    ELSE <<100, 97, 116, 97, 58, 32>> \o ls[1] \o <<10>>
         \o DataLinesOf(Drop(ls, 1))

\* the text of an event, its data cut into the lines ls
WireText(ev, ls) ==
    IF ev.type = "Message"
    THEN (IF ev.event = <<109, 101, 115, 115, 97, 103, 101>> THEN <<>>
          ELSE <<101, 118, 101, 110, 116, 58, 32>> \o ev.event \o <<10>>)
         \o DataLinesOf(ls)
    ELSE IF ev.type = "Retry"
    THEN <<114, 101, 116, 114, 121, 58, 32>>
         \o [k \in 1..Len(ev.retry) |-> ev.retry[k] + 48] \o <<10>>
    ELSE IF ev.id = <<>> THEN <<105, 100, 10>>
    ELSE <<105, 100, 58, 32>> \o ev.id \o <<10>>

RECURSIVE Written(_, _)
Written(evs, segmented) ==
    IF evs = <<>> THEN <<>>
    ELSE LET ev == evs[1]
             ls == IF ev.type # "Message" THEN <<>>
                   ELSE IF segmented
                   THEN (IF ev.data = <<>> THEN <<>> ELSE SegmentsLF(ev.data))
                   ELSE LinesOfData(ev.data)
         IN  WireText(ev, ls) \o <<10>> \o Written(Drop(evs, 1), segmented)

\* C19 as stated: the text of a Message has one `data: <segment>` line for
\* each segment of data between line feeds, k line feeds giving k+1 data
\* lines and empty data none, after an event line when event is not
\* "message"; the encoder writes that text and one more line feed.
OneDataLinePerSegment == stream = Written(sent, TRUE)

\* C19 (amended): the text of a Message is an `event: <event>` line when
\* event is not "message", then one `data: <line>` line for each line of
\* data: data is cut at its line feeds, the empty piece after a final line
\* feed gives no line (k line feeds give k+1 lines only when data does not
\* end in one; empty data gives none), and a CR right before a line feed is
\* left out.  Retry is `retry: <decimal>`, LastEventId is `id` for an empty
\* id and `id: <id>` otherwise; every line ends in one LF, the encoder adds
\* one more LF, and the bytes written are a function of the events alone.
OneDataLinePerLine == stream = Written(sent, FALSE)

\* a Message whose data ends in a line feed was written with one data line
TrailingLineFeedWritten ==
    /\ sent = <<Message(<<>>, X \o <<LF>>)>>
    /\ stream = S_event \o <<COLON, SP, LF>>
                 \o S_data \o <<COLON, SP>> \o X \o <<LF, LF>>

----------------------------------------------------------------------------
(* Ignored lines                                                           *)

IsIgnoredKind(e) ==
    \/ IsComment(e) \/ IsUnknownField(e)
    \/ (e.kind = "line" /\ NameOf(e) = S_retry)

\* C20: a comment line, a line whose field name is none of data, event, id
\* and retry (names are compared as written: `Data`, ` data`, `da-ta` and
\* `data` with U+0000 after it are other names), and a retry line, valid or
\* not, leave the pending id, event and data as they were; of these lines
\* only a valid retry line yields an event, and that event is a Retry.
IgnoredLinesKeepBuffers ==
    \A i \in 1..Len(lines) :
        IsIgnoredKind(lines[i]) =>
            /\ lines[i].post.id = lines[i].pre.id
            /\ lines[i].post.event = lines[i].pre.event
            /\ lines[i].post.data = lines[i].pre.data
            /\ (lines[i].ev # None)
                  <=> (NameOf(lines[i]) = S_retry /\ ~IsBadRetry(lines[i]))
            /\ lines[i].ev # None => lines[i].ev[1].type = "Retry"

\* a comment, `Data`, ` data`, two retry lines and `data` with U+0000 came
\* while an event type and data were pending: both were kept for the
\* Message, and only `retry:1` yielded
IgnoredLinesInsideFrame ==
    /\ stream = ScIgnoredInFrame /\ rest = <<>> /\ src = <<>>
    /\ \A i \in 3..8 :
          /\ IsIgnoredKind(lines[i])
          /\ lines[i].pre.event = Some(X) /\ lines[i].pre.data = Y \o <<LF>>
    /\ IsComment(lines[3]) /\ IsUnknownField(lines[5]) /\ IsBadRetry(lines[7])
    /\ out = <<OkSome(Retry(<<1>>)), OkSome(Message(X, Y))>>

----------------------------------------------------------------------------
(* The id, data and event buffers                                          *)

HasNul(v) == \E k \in 1..Len(v) : v[k] = 0
IsIgnoredId(e) ==
    /\ e.kind = "line" /\ NameOf(e) = S_id
    /\ (~HasColon(e) \/ HasNul(RawValueOf(e)))

EndsWithLF(d) == d = <<>> \/ d[Len(d)] = 10

\* C22: in every state of the decoder, between calls and between the lines
\* of one call, the data buffer is empty or ends with LF; a data line
\* appends its value and one LF, no other line writes to the buffer, and
\* the data of a Message is the buffer less its last LF.
DataEndsWithLF ==
    /\ EndsWithLF(codec.data)
    /\ \A i \in 1..Len(lines) :
          /\ EndsWithLF(lines[i].pre.data) /\ EndsWithLF(lines[i].post.data)
          /\ lines[i].kind = "line" =>
                IF NameOf(lines[i]) = S_data
                THEN lines[i].post.data
                       = lines[i].pre.data \o ValueOf(lines[i]) \o <<10>>
                ELSE IF IsBlank(lines[i]) THEN lines[i].post.data = <<>>
                ELSE lines[i].post.data = lines[i].pre.data
          /\ IsMessageAt(i) =>
                lines[i].ev[1].data \o <<10>> = lines[i].pre.data

\* two data lines are pending between two calls
TwoDataLinesPending ==
    /\ codec.data = X \o <<LF>> \o Y \o <<LF>>
    /\ src = <<>> /\ ret = OkNone /\ rest # <<>>

----------------------------------------------------------------------------
(* Meta-events                                                             *)

\* a Retry, or a LastEventId whose id has no CR, LF or U+0000
IsMetaEvent(e) ==
    \/ e.type = "Retry"
    \/ /\ e.type = "LastEventId"
       /\ NoByte(e.id, CR) /\ NoByte(e.id, LF) /\ NoByte(e.id, NUL)

\* C24: meta-event round trip.  The bytes Encoder::encode writes for a Retry
\* or for such a LastEventId, with an empty id or not, read by a decoder
\* that started fresh, give exactly that event and nothing else: what has
\* been returned so far, followed by what draining the rest returns, is the
\* events sent.
MetaEventRoundTrip ==
    (\A i \in 1..Len(sent) : IsMetaEvent(sent[i])) =>
        out \o Drain(codec, src \o rest, <<>>).out
          = [i \in 1..Len(sent) |-> OkSome(sent[i])]

----------------------------------------------------------------------------
(* Termination                                                             *)

NoTerminatorIn(buf) == \A i \in 1..Len(buf) : buf[i] # 13 /\ buf[i] # 10
Quiet == rest = <<>> /\ NoTerminatorIn(src) /\ ret = OkNone

\* one decode call: every iteration of its loop took at least one byte off
\* the buffer, the bytes taken are the front of the buffer, and a call that
\* returns "no event" leaves no terminator behind
DecodeConsumes ==
    Decode =>
        /\ Len(src') <= Len(src)
        /\ src' = Drop(src, Len(src) - Len(src'))
        /\ Len(lines') - Len(lines) <= Len(src) - Len(src')
        /\ ret' = OkNone => NoTerminatorIn(src')

\* C25: decoding terminates on every input.  Each iteration of the decode
\* loop removes at least one byte, so a call does at most as many
\* iterations as the buffer has bytes; and for every finite stream, of any
\* bytes, once the bytes are all delivered the repeated decode calls reach
\* "no event" with no terminator left in the buffer, and stay there.
DecodingTerminates == [][DecodeConsumes]_vars /\ <>[]Quiet

\* a stream with a line that is not valid UTF-8 was decoded to the end: the
\* error was returned, then "no event", and the unterminated tail is left
QuietAfterError ==
    /\ Quiet /\ src # <<>>
    /\ \E k \in 1..Len(out) : out[k].kind = "Utf8Error"

====
